---- MODULE Spec2Model ----
(***************************************************************************)
(* A model of pack-push.py, the BitSerializer pack & push script.          *)
(*                                                                         *)
(* The script is one sequential process.  Its state is the position in     *)
(* main(), the local variables version / action / source / api_key, the    *)
(* project descriptor it reads, the nupkg output directory, the lines the  *)
(* operator types, the external commands it has run (with the exit status  *)
(* each returned) and the process exit status.                             *)
(*                                                                         *)
(* Text is modelled as a sequence of characters (one-character strings);   *)
(* the fixed literals of the script are single tokens.                     *)
(***************************************************************************)
EXTENDS Integers, Sequences, FiniteSets, TLC

VARIABLES
    pc,          \* position in main(): the next step to run
    descriptor,  \* content of BitSerializer.csproj, a sequence of tokens
    version,     \* main()'s local `version`
    action,      \* main()'s local `action` (the normalised menu line)
    source,      \* main()'s local `source`
    api_key,     \* main()'s local `api_key`
    prompt,      \* the interactive function that last read the terminal
    typed,       \* the raw lines typed into that function, in order
    dirExists,   \* whether OUTPUT_DIR exists
    files,       \* the files of OUTPUT_DIR: records [name, origin]
    removed,     \* the files os.remove() has deleted
    pkgs,        \* push_packages' list `pkgs` still to be pushed
    cmds,        \* subprocess.run calls so far, each with its returncode
    warned,      \* whether warn() has printed the "no .nupkg found" warning
    errMsg,      \* the message error() printed to stderr ("" when none)
    exit         \* <<>> while running, <<code>> once the process has exited

vars == <<pc, descriptor, version, action, source, api_key, prompt, typed,
          dirExists, files, removed, pkgs, cmds, warned, errMsg, exit>>

----------------------------------------------------------------------------
(* Bounds of the model. *)

\* longest project descriptor, in tokens
MaxDescLen == 3
\* longest line typed at the menu, the source menu, the owner and URL prompts
MaxInputLen == 2
\* longest API key typed
MaxKeyLen == 1

\* Tokens of a descriptor: the literal "<Version>", the literal "</Version>",
\* some other "<" (the start of any other tag), and two text characters.
OpenTag == "<Version>"
CloseTag == "</Version>"
DescTokens == {OpenTag, CloseTag, "<", "1", "."}

\* Characters the operator may type at each prompt.
MenuChars == {"1", "2", "3", "q", "Q", "x", " "}
ChoiceChars == {"1", "2", "3", "x", " "}
TextChars == {"a", " "}
KeyChars == {"k", " "}

\* File names that may occur in OUTPUT_DIR.
ArchiveNames == {[stem |-> "a", ext |-> "nupkg"], [stem |-> "b", ext |-> "nupkg"]}
OtherNames == {[stem |-> "a", ext |-> "txt"]}

\* All sequences over S of length at most n.
SeqsUpTo(S, n) == UNION {[1..k -> S] : k \in 0..n}

\* Exit statuses an external command may return.
ReturnCodes == {0, 1, 2}

----------------------------------------------------------------------------
(* Text helpers: str.strip(), str.lower(). *)

Whitespace == {" "}

RECURSIVE LStrip(_)
LStrip(s) ==
    IF s = <<>> THEN s
    ELSE IF Head(s) \in Whitespace THEN LStrip(Tail(s)) ELSE s

RECURSIVE RStrip(_)
RStrip(s) ==
    IF s = <<>> THEN s
    ELSE IF s[Len(s)] \in Whitespace THEN RStrip(SubSeq(s, 1, Len(s) - 1)) ELSE s

\* Mutant of Strip: lstrip() in place of strip().
StripLeftOnly(s) == LStrip(s)

\* str.strip(): leading and trailing whitespace removed, the inside kept.
Strip(s) == RStrip(LStrip(s))

LowerChar(c) == IF c = "Q" THEN "q" ELSE c

\* str.lower()
Lower(s) == [i \in 1..Len(s) |-> LowerChar(s[i])]

----------------------------------------------------------------------------
(* get_version: re.search(r"<Version>([^<]+)</Version>", text).            *)

\* A token that is not a "<": what [^<] matches.
IsText(t) == t \notin {OpenTag, CloseTag, "<"}

\* The first position at or after j holding a "<", Len(d) + 1 when none.
RECURSIVE FirstAngle(_, _)
FirstAngle(d, j) ==
    IF j > Len(d) THEN Len(d) + 1
    ELSE IF IsText(d[j]) THEN FirstAngle(d, j + 1) ELSE j

\* Mutant of MatchAt: ([^<]*) in place of ([^<]+), an empty tag matches.
MatchAtEmptyContent(d, i) ==
    /\ d[i] = OpenTag
    /\ LET j == FirstAngle(d, i + 1)
       IN  j <= Len(d) /\ d[j] = CloseTag

\* Whether the pattern matches with "<Version>" at position i: one or more
\* non-"<" characters, then "</Version>".
MatchAt(d, i) ==
    /\ d[i] = OpenTag
    /\ LET j == FirstAngle(d, i + 1)
       IN  j <= Len(d) /\ j > i + 1 /\ d[j] = CloseTag

\* re.search: the leftmost match, as <<group(1)>>; <<>> for None.
RECURSIVE SearchFrom(_, _)
SearchFrom(d, i) ==
    IF i > Len(d) THEN <<>>
    ELSE IF MatchAt(d, i)
         THEN <<SubSeq(d, i + 1, FirstAngle(d, i + 1) - 1)>>
         ELSE SearchFrom(d, i + 1)

ReSearch(d) == SearchFrom(d, 1)

----------------------------------------------------------------------------
(* The output directory and glob. *)

\* glob.glob(os.path.join(OUTPUT_DIR, "*.nupkg")): the entries of the
\* directory whose name ends in .nupkg.
Glob(fs) == {f \in fs : f.name.ext = "nupkg"}

\* The directory after the toolchain has written the files named `names`:
\* a file of the same name is replaced.
Written(fs, names) ==
    {f \in fs : f.name \notin names} \cup {[name |-> n, origin |-> "new"] : n \in names}

\* The orders in which glob may list the set S.
Orders(S) ==
    {s \in [1..Cardinality(S) -> S] : \A i, j \in 1..Cardinality(S) : s[i] = s[j] => i = j}

----------------------------------------------------------------------------
(* The literals and command lines of the script. *)

GENERATOR_PROJ == "BitSerializer.Generator/BitSerializer.Generator.csproj"
MAIN_PROJ == "BitSerializer/BitSerializer.csproj"

NugetOrg == <<"https://api.nuget.org/v3/index.json">>
GitHubUrl(owner) == <<"https://nuget.pkg.github.com/">> \o owner \o <<"/index.json">>

NoName == [stem |-> "", ext |-> ""]

\* ["dotnet", "nuget", "list", "source"]
ListCmd ==
    [tool |-> "nuget list source", proj |-> "", output |-> FALSE, version |-> <<>>,
     pkg |-> NoName, source |-> <<>>, key |-> <<>>, skipDuplicate |-> FALSE]

\* ["dotnet", "pack", proj, "-c", "Release", "--output", OUTPUT_DIR, "-p:Version=" + v]
PackCmd(proj, v) ==
    [tool |-> "pack", proj |-> proj, output |-> TRUE, version |-> v,
     pkg |-> NoName, source |-> <<>>, key |-> <<>>, skipDuplicate |-> FALSE]

\* Mutant of BuildCmd: the -p:Version argument left out.
BuildCmdNoVersion(proj, v) ==
    [tool |-> "build", proj |-> proj, output |-> FALSE, version |-> <<>>,
     pkg |-> NoName, source |-> <<>>, key |-> <<>>, skipDuplicate |-> FALSE]

\* ["dotnet", "build", proj, "-c", "Release", "-p:Version=" + v]
BuildCmd(proj, v) ==
    [tool |-> "build", proj |-> proj, output |-> FALSE, version |-> v,
     pkg |-> NoName, source |-> <<>>, key |-> <<>>, skipDuplicate |-> FALSE]

\* Mutant of PushCmd: the values of --source and --api-key exchanged.
PushCmdSwapped(pkg, src, key) ==
    [tool |-> "nuget push", proj |-> "", output |-> FALSE, version |-> <<>>,
     pkg |-> pkg, source |-> key, key |-> src, skipDuplicate |-> TRUE]

\* ["dotnet", "nuget", "push", pkg, "--source", src, "--api-key", key, "--skip-duplicate"]
PushCmd(pkg, src, key) ==
    [tool |-> "nuget push", proj |-> "", output |-> FALSE, version |-> <<>>,
     pkg |-> pkg, source |-> src, key |-> key, skipDuplicate |-> TRUE]

----------------------------------------------------------------------------
(* error(), run() and the ways main() ends. *)

\* Mutant of error: sys.exit(2).
error_status_two(msg) ==
    /\ errMsg' = msg
    /\ exit' = <<2>>
    /\ pc' = "exited"

\* error(msg): the message goes to stderr and the process exits with 1.
error(msg) ==
    /\ errMsg' = msg
    /\ exit' = <<1>>
    /\ pc' = "exited"

\* main() returns, or sys.exit(0): the process exits with 0.
ExitOk ==
    /\ exit' = <<0>>
    /\ pc' = "exited"
    /\ UNCHANGED errMsg

\* The script goes on at `next`.
Goto(next) ==
    /\ pc' = next
    /\ UNCHANGED <<errMsg, exit>>

\* Mutant of run: the returncode is not looked at.
run_ignoring_status(cmd, rc, cont) ==
    /\ cmds' = Append(cmds, [cmd |-> cmd, rc |-> rc])
    /\ cont

\* run(cmd): the command runs and returns rc; a non-zero rc is fatal,
\* otherwise the caller goes on as `cont` says.
run(cmd, rc, cont) ==
    /\ cmds' = Append(cmds, [cmd |-> cmd, rc |-> rc])
    /\ IF rc # 0 THEN error("command failed") ELSE cont

----------------------------------------------------------------------------
(* The initial state: the script has been started and nothing has run. *)

\* A directory content that predates the run.
OldDirs == {{[name |-> n, origin |-> "old"] : n \in S} : S \in SUBSET (ArchiveNames \cup OtherNames)}

\* Any descriptor up to MaxDescLen; the output directory absent, or present
\* with any old content.
Init ==
    /\ pc = "start"
    /\ descriptor \in SeqsUpTo(DescTokens, MaxDescLen)
    /\ \/ dirExists = TRUE /\ files \in OldDirs
       \/ dirExists = FALSE /\ files = {}
    /\ version = <<>>
    /\ action = <<>>
    /\ source = <<>>
    /\ api_key = <<>>
    /\ prompt = "none"
    /\ typed = <<>>
    /\ removed = {}
    /\ pkgs = <<>>
    /\ cmds = <<>>
    /\ warned = FALSE
    /\ errMsg = ""
    /\ exit = <<>>

----------------------------------------------------------------------------
(* The steps of main(). *)

\* get_version(MAIN_PROJ), called at line 151.
get_version ==
    /\ pc = "start"
    /\ LET m == ReSearch(descriptor)
       IN  IF m = <<>>
           THEN error("cannot read version") /\ UNCHANGED version
           ELSE version' = m[1] /\ Goto("menu")
    /\ UNCHANGED <<descriptor, action, source, api_key, prompt, typed,
                   dirExists, removed, files, pkgs, cmds, warned>>

\* Mutant of Menu: the line is stripped but not lower-cased.
MenuNoLower ==
    /\ pc = "menu"
    /\ \E line \in SeqsUpTo(MenuChars, MaxInputLen) :
         /\ typed' = <<line>>
         /\ prompt' = "menu"
         /\ action' = Strip(line)
         /\ IF action' = <<"1">> THEN Goto("list_sources")
            ELSE IF action' = <<"2">> THEN Goto("build_and_pack")
            ELSE IF action' = <<"3">> THEN Goto("list_sources")
            ELSE IF action' = <<"q">> THEN ExitOk
            ELSE error("invalid option")
    /\ UNCHANGED <<descriptor, version, source, api_key,
                   dirExists, removed, files, pkgs, cmds, warned>>

\* The main menu: input(...).strip().lower() and the dispatch on it,
\* lines 168-186 (the calls themselves are the steps below).
Menu ==
    /\ pc = "menu"
    /\ \E line \in SeqsUpTo(MenuChars, MaxInputLen) :
         /\ typed' = <<line>>
         /\ prompt' = "menu"
         /\ action' = Lower(Strip(line))
         /\ IF action' = <<"1">> THEN Goto("list_sources")
            ELSE IF action' = <<"2">> THEN Goto("build_and_pack")
            ELSE IF action' = <<"3">> THEN Goto("list_sources")
            ELSE IF action' = <<"q">> THEN ExitOk
            ELSE error("invalid option")
    /\ UNCHANGED <<descriptor, version, source, api_key,
                   dirExists, removed, files, pkgs, cmds, warned>>

\* list_sources(): one external command.  Under action 1 main() then
\* returns; under action 3 it goes on to set_source().
list_sources ==
    /\ pc = "list_sources"
    /\ \E rc \in ReturnCodes :
         run(ListCmd, rc, IF action = <<"1">> THEN ExitOk ELSE Goto("set_source"))
    /\ UNCHANGED <<descriptor, version, action, source, api_key, prompt, typed,
                   dirExists, removed, files, pkgs, warned>>

\* set_source(): the choice, and under 2 and 3 a second line.
set_source ==
    /\ pc = "set_source"
    /\ prompt' = "set_source"
    /\ \E first \in SeqsUpTo(ChoiceChars, MaxInputLen), second \in SeqsUpTo(TextChars, MaxInputLen) :
         LET choice == Strip(first)
             answer == Strip(second)
         IN  IF choice = <<"1">>
             THEN typed' = <<first>> /\ source' = NugetOrg /\ Goto("set_api_key")
             ELSE IF choice = <<"2">>
             THEN /\ typed' = <<first, second>>
                  /\ IF answer = <<>>
                     THEN error("owner must not be empty") /\ UNCHANGED source
                     ELSE source' = GitHubUrl(answer) /\ Goto("set_api_key")
             ELSE IF choice = <<"3">>
             THEN /\ typed' = <<first, second>>
                  /\ IF answer = <<>>
                     THEN error("source URL must not be empty") /\ UNCHANGED source
                     ELSE source' = answer /\ Goto("set_api_key")
             ELSE typed' = <<first>> /\ error("invalid option") /\ UNCHANGED source
    /\ UNCHANGED <<descriptor, version, action, api_key,
                   dirExists, removed, files, pkgs, cmds, warned>>

\* Mutant of set_api_key: the check for an empty key left out.
set_api_key_accept_empty ==
    /\ pc = "set_api_key"
    /\ prompt' = "set_api_key"
    /\ \E line \in SeqsUpTo(KeyChars, MaxKeyLen) :
         /\ typed' = <<line>>
         /\ api_key' = line
         /\ Goto("build_and_pack")
    /\ UNCHANGED <<descriptor, version, action, source,
                   dirExists, removed, files, pkgs, cmds, warned>>

\* set_api_key(): getpass, not stripped.
set_api_key ==
    /\ pc = "set_api_key"
    /\ prompt' = "set_api_key"
    /\ \E line \in SeqsUpTo(KeyChars, MaxKeyLen) :
         /\ typed' = <<line>>
         /\ IF line = <<>>
            THEN error("API key must not be empty") /\ UNCHANGED api_key
            ELSE api_key' = line /\ Goto("build_and_pack")
    /\ UNCHANGED <<descriptor, version, action, source,
                   dirExists, removed, files, pkgs, cmds, warned>>

\* Mutant of CleanOutputDir: only one of the globbed files is removed.
CleanOutputDirFirstOnly ==
    /\ pc = "build_and_pack"
    /\ dirExists' = TRUE
    /\ LET found == Glob(files)
           gone == IF found = {} THEN {} ELSE {CHOOSE f \in found : TRUE}
       IN  removed' = gone /\ files' = files \ gone
    /\ Goto("pack_generator")
    /\ UNCHANGED <<descriptor, version, action, source, api_key, prompt, typed,
                   pkgs, cmds, warned>>

\* build_and_pack, lines 103-105: makedirs, then every globbed file removed.
CleanOutputDir ==
    /\ pc = "build_and_pack"
    /\ dirExists' = TRUE
    /\ removed' = Glob(files)
    /\ files' = files \ Glob(files)
    /\ Goto("pack_generator")
    /\ UNCHANGED <<descriptor, version, action, source, api_key, prompt, typed,
                   pkgs, cmds, warned>>

\* build_and_pack, lines 108-111: dotnet pack of the generator project.  The
\* toolchain writes whatever archives it writes into the output directory.
PackGenerator ==
    /\ pc = "pack_generator"
    /\ \E rc \in ReturnCodes, names \in SUBSET ArchiveNames :
         /\ files' = Written(files, names)
         /\ run(PackCmd(GENERATOR_PROJ, version), rc, Goto("build_generator"))
    /\ UNCHANGED <<descriptor, version, action, source, api_key, prompt, typed,
                   dirExists, removed, pkgs, warned>>

\* build_and_pack, lines 114-116: dotnet build of the generator project.
BuildGenerator ==
    /\ pc = "build_generator"
    /\ \E rc \in ReturnCodes :
         run(BuildCmd(GENERATOR_PROJ, version), rc, Goto("pack_main"))
    /\ UNCHANGED <<descriptor, version, action, source, api_key, prompt, typed,
                   dirExists, removed, files, pkgs, warned>>

\* build_and_pack, lines 117-126: dotnet pack of the main project and the
\* report.  Under action 2 main() then returns; under 3 it goes on to push.
PackMain ==
    /\ pc = "pack_main"
    /\ \E rc \in ReturnCodes, names \in SUBSET ArchiveNames :
         /\ files' = Written(files, names)
         /\ run(PackCmd(MAIN_PROJ, version), rc,
                IF action = <<"2">> THEN ExitOk ELSE Goto("push_packages"))
    /\ UNCHANGED <<descriptor, version, action, source, api_key, prompt, typed,
                   dirExists, removed, pkgs, warned>>

\* Mutant of push_packages: nothing found is an error, not a warning.
push_packages_empty_fatal ==
    /\ pc = "push_packages"
    /\ IF Glob(files) = {}
       THEN error("no package found") /\ UNCHANGED <<warned, pkgs>>
       ELSE /\ pkgs' \in Orders({f.name : f \in Glob(files)})
            /\ Goto("push_loop")
            /\ UNCHANGED warned
    /\ UNCHANGED <<descriptor, version, action, source, api_key, prompt, typed,
                   dirExists, removed, files, cmds>>

\* push_packages, lines 134-137: the glob; with nothing found a warning and
\* the return to main(), which then ends.
push_packages ==
    /\ pc = "push_packages"
    /\ IF Glob(files) = {}
       THEN warned' = TRUE /\ pkgs' = <<>> /\ ExitOk
       ELSE /\ pkgs' \in Orders({f.name : f \in Glob(files)})
            /\ Goto("push_loop")
            /\ UNCHANGED warned
    /\ UNCHANGED <<descriptor, version, action, source, api_key, prompt, typed,
                   dirExists, removed, files, cmds>>

\* push_packages, lines 139-145: one turn of the loop; after the last one
\* main() ends.
PushOne ==
    /\ pc = "push_loop"
    /\ pkgs # <<>>
    /\ \E rc \in ReturnCodes :
         /\ run(PushCmd(Head(pkgs), source, api_key), rc,
                IF Tail(pkgs) = <<>> THEN ExitOk ELSE Goto("push_loop"))
         /\ pkgs' = IF rc # 0 THEN pkgs ELSE Tail(pkgs)
    /\ UNCHANGED <<descriptor, version, action, source, api_key, prompt, typed,
                   dirExists, removed, files, warned>>

Next ==
    \/ get_version
    \/ Menu
    \/ list_sources
    \/ set_source
    \/ set_api_key
    \/ CleanOutputDir
    \/ PackGenerator
    \/ BuildGenerator
    \/ PackMain
    \/ push_packages
    \/ PushOne

Spec == Init /\ [][Next]_vars

----------------------------------------------------------------------------
(* Vocabulary of the properties below. *)

Exited == exit # <<>>

IsPush(c) == c.cmd.tool = "nuget push"
IsPackStep(c) == c.cmd.tool \in {"pack", "build"}

\* The push invocations so far, and the build/pack invocations so far.
Pushes == SelectSeq(cmds, IsPush)
PackSteps == SelectSeq(cmds, IsPackStep)

AllZero(s) == \A i \in 1..Len(s) : s[i].rc = 0
Failed(s) == \E i \in 1..Len(s) : s[i].rc # 0

\* The archive files in the output directory.
Archives == {f \in files : f.name \in ArchiveNames}

Range(s) == {s[i] : i \in 1..Len(s)}

Blank(s) == \A k \in 1..Len(s) : s[k] = " "

\* t is s without its leading and trailing blanks.
IsTrimOf(t, s) ==
    \E a \in 0..Len(s) : \E b \in a..Len(s) :
        /\ t = SubSeq(s, a + 1, b)
        /\ \A k \in 1..a : s[k] = " "
        /\ \A k \in (b + 1)..Len(s) : s[k] = " "
        /\ t # <<>> => t[1] # " " /\ t[Len(t)] # " "

\* The positions of main() before build_and_pack calls the toolchain.
BeforePack == {"start", "menu", "list_sources", "set_source", "set_api_key", "build_and_pack"}
InPack == {"pack_generator", "build_generator", "pack_main"}
AfterPack == {"push_packages", "push_loop"}

----------------------------------------------------------------------------
(* C1: once push_packages has found N >= 1 archives, the push invocations   *)
(* are for distinct archives of the directory, each carries main()'s source *)
(* and api_key and the duplicate-skip flag, only the last one made can have *)
(* failed, a failed one has ended the run with status 1, and a run that     *)
(* ended with every push successful has made exactly N, one per archive.    *)
C1_PushOncePerFile ==
    LET P == Pushes
        N == Cardinality(Archives)
    IN  (pc = "push_loop" \/ P # <<>>) =>
            /\ N >= 1
            /\ Len(P) <= N
            /\ \A i \in 1..Len(P) :
                 /\ P[i].cmd.pkg \in {f.name : f \in Archives}
                 /\ P[i].cmd.source = source
                 /\ P[i].cmd.key = api_key
                 /\ P[i].cmd.skipDuplicate
                 /\ \A j \in 1..Len(P) : P[i].cmd.pkg = P[j].cmd.pkg => i = j
                 /\ i < Len(P) => P[i].rc = 0
            /\ Failed(P) => exit = <<1>>
            /\ ~Failed(P) /\ ~Exited => Len(P) + Len(pkgs) = N
            /\ ~Failed(P) /\ Exited =>
                 /\ exit = <<0>>
                 /\ Len(P) = N
                 /\ {P[i].cmd.pkg : i \in 1..Len(P)} = {f.name : f \in Archives}

\* Two archives were found, the first push succeeded and the second failed.
C1_Witness ==
    /\ Cardinality(Archives) = 2
    /\ Len(Pushes) = 2
    /\ Pushes[1].rc = 0
    /\ Pushes[2].rc # 0
    /\ Exited

(* C2: a step taken at the entry of push_packages with no archive in the    *)
(* output directory runs no command, prints the warning and no error, and   *)
(* ends the run, main() returning, with status 0.                           *)
C2_EmptyPushReturns ==
    [][(pc = "push_packages" /\ Archives = {}) =>
          /\ cmds' = cmds
          /\ warned'
          /\ errMsg' = ""
          /\ exit' = <<0>>]_vars

\* The pack-and-push path ended with the warning and without any push.
C2_Witness ==
    /\ action = <<"3">>
    /\ warned
    /\ Pushes = <<>>
    /\ Len(PackSteps) = 3
    /\ exit = <<0>>

(* C3: from the first toolchain invocation of build_and_pack on, the output *)
(* directory exists and holds no archive from before the run, and at that   *)
(* first invocation it holds no archive at all.                             *)
C3_NoResidualArchives ==
    (pc \in InPack \cup AfterPack \/ PackSteps # <<>>) =>
        /\ dirExists
        /\ \A f \in Archives : f.origin = "new"
        /\ (pc = "pack_generator" => Archives = {})

\* Two old archives were removed and the pack went through, leaving archives.
C3_Witness ==
    /\ Cardinality(removed) = 2
    /\ Len(PackSteps) = 3
    /\ AllZero(PackSteps)
    /\ Archives # {}

\* build_and_pack has returned: it ran the toolchain, nothing failed, and
\* main() is past it.
PackCompleted == PackSteps # <<>> /\ AllZero(PackSteps) /\ pc \notin InPack

(* C4, as stated: a pack operation in which every command succeeds runs the *)
(* toolchain exactly twice, for the generator project and then for the main *)
(* project, each time with the version.                                     *)
C4_TwoInvocations ==
    PackCompleted =>
        /\ Len(PackSteps) = 2
        /\ PackSteps[1].cmd.proj = GENERATOR_PROJ
        /\ PackSteps[2].cmd.proj = MAIN_PROJ
        /\ \A i \in 1..Len(PackSteps) : PackSteps[i].cmd.version = version

(* C4, amended: a pack operation in which every command succeeds runs the   *)
(* toolchain exactly three times, in sequence: pack of the generator        *)
(* project, build of the generator project, pack of the main project, each  *)
(* with the version; the two packs write to the output directory.           *)
C4_ThreeInvocations ==
    PackCompleted =>
        /\ Len(PackSteps) = 3
        /\ PackSteps[1].cmd.tool = "pack" /\ PackSteps[1].cmd.proj = GENERATOR_PROJ
        /\ PackSteps[2].cmd.tool = "build" /\ PackSteps[2].cmd.proj = GENERATOR_PROJ
        /\ PackSteps[3].cmd.tool = "pack" /\ PackSteps[3].cmd.proj = MAIN_PROJ
        /\ PackSteps[1].cmd.output /\ ~PackSteps[2].cmd.output /\ PackSteps[3].cmd.output
        /\ \A i \in 1..3 : PackSteps[i].cmd.version = version /\ version # <<>>

\* Pack-only ran to its end.
C4_Witness ==
    /\ action = <<"2">>
    /\ PackCompleted
    /\ exit = <<0>>

\* d holds a version tag from position i to position j: "<Version>", one or
\* more characters none of which is a "<", "</Version>".
IsTagAt(d, i, j) ==
    /\ d[i] = OpenTag
    /\ d[j] = CloseTag
    /\ j > i + 1
    /\ \A k \in (i + 1)..(j - 1) : d[k] \notin {OpenTag, CloseTag, "<"}

HasVersionTag(d) == \E i, j \in 1..Len(d) : IsTagAt(d, i, j)

\* The content of the first version tag of d.
TagContent(d) ==
    LET i == CHOOSE i \in 1..Len(d) :
                 /\ \E j \in 1..Len(d) : IsTagAt(d, i, j)
                 /\ \A h \in 1..(i - 1) : ~\E j \in 1..Len(d) : IsTagAt(d, h, j)
        j == CHOOSE j \in 1..Len(d) : IsTagAt(d, i, j)
    IN  SubSeq(d, i + 1, j - 1)

(* C5: with no version tag in the descriptor the run has ended with status  *)
(* 1 as soon as it has taken a step, with no command run, nothing typed and *)
(* nothing deleted; with a version tag, main()'s version once read and the  *)
(* version of every build and pack command are the tag's content.           *)
C5_VersionFromTag ==
    /\ (~HasVersionTag(descriptor) /\ pc # "start") =>
           /\ exit = <<1>>
           /\ cmds = <<>>
           /\ prompt = "none" /\ typed = <<>>
           /\ removed = {}
    /\ (HasVersionTag(descriptor) /\ pc # "start") =>
           /\ version = TagContent(descriptor)
           /\ \A i \in 1..Len(PackSteps) : PackSteps[i].cmd.version = TagContent(descriptor)

\* A descriptor that is a version tag, and the three pack-step commands run.
C5_Witness ==
    /\ HasVersionTag(descriptor)
    /\ Len(descriptor) = 3
    /\ Len(PackSteps) = 3

(* C6: no command follows a command that returned non-zero, a run in which  *)
(* a command returned non-zero has ended with status 1, and no file         *)
(* os.remove() deleted is back in the output directory.                     *)
C6_FailureIsFatal ==
    /\ \A i \in 1..(Len(cmds) - 1) : cmds[i].rc = 0
    /\ Failed(cmds) => exit = <<1>> /\ pc = "exited"
    /\ removed \cap files = {}

\* The build step failed after old archives had been deleted.
C6_Witness ==
    /\ Len(PackSteps) = 2
    /\ PackSteps[2].rc # 0
    /\ removed # {}
    /\ Exited

\* The line typed is c, possibly with blanks around it.
Chose(line, c) == IsTrimOf(<<c>>, line)

\* The fatal conditions, read off the descriptor once get_version has read
\* it, the lines typed and the exit statuses of the commands.
MissingVersion == pc # "start" /\ ~HasVersionTag(descriptor)
InvalidMenuChoice ==
    prompt = "menu" /\ ~\E c \in {"1", "2", "3", "q", "Q"} : Chose(typed[1], c)
InvalidSourceChoice ==
    prompt = "set_source" /\ ~\E c \in {"1", "2", "3"} : Chose(typed[1], c)
EmptyOwnerOrUrl ==
    /\ prompt = "set_source"
    /\ \E c \in {"2", "3"} : Chose(typed[1], c)
    /\ Len(typed) = 2
    /\ Blank(typed[2])
EmptyCredential == prompt = "set_api_key" /\ typed[1] = <<>>
Fatal ==
    \/ MissingVersion
    \/ InvalidMenuChoice
    \/ InvalidSourceChoice
    \/ EmptyOwnerOrUrl
    \/ EmptyCredential
    \/ Failed(cmds)

\* The chosen action ran to its end.
Graceful ==
    \/ action = <<"q">> /\ cmds = <<>>
    \/ action = <<"1">> /\ Len(cmds) = 1 /\ AllZero(cmds)
    \/ action = <<"2">> /\ Len(cmds) = 3 /\ cmds = PackSteps /\ AllZero(cmds)
    \/ /\ action = <<"3">>
       /\ AllZero(cmds)
       /\ Len(PackSteps) = 3
       /\ Len(Pushes) = Cardinality(Archives)

(* C7: a run that has ended has status 0 or 1; the status is 1 exactly when *)
(* a fatal condition has occurred (so a fatal condition ends the run at     *)
(* once), it is 0 only when the chosen action ran to its end or the choice  *)
(* was to quit, and a run that has not ended can take a step.               *)
C7_ExitCodes ==
    /\ Exited => exit \in {<<0>>, <<1>>}
    /\ exit = <<1>> <=> Fatal
    /\ exit = <<1>> <=> errMsg # ""
    /\ exit = <<0>> => Graceful
    /\ ~Exited => ENABLED Next

\* The owner prompt was answered with blanks only.
C7_Witness ==
    /\ prompt = "set_source"
    /\ Chose(typed[1], "2")
    /\ typed[2] = <<" ">>
    /\ exit = <<1>>

\* What a run does under each action main() dispatches on: q runs no
\* command, deletes nothing and ends with 0; 1 runs only list-sources; 2 runs
\* only the pack-step commands, never a push, and prompts for nothing more;
\* a push occurs only under 3.
ActionDecides ==
    /\ action = <<"q">> =>
           cmds = <<>> /\ removed = {} /\ exit = <<0>> /\ prompt = "menu"
    /\ action = <<"1">> =>
           /\ Len(cmds) <= 1
           /\ \A i \in 1..Len(cmds) : cmds[i].cmd.tool = "nuget list source"
           /\ removed = {} /\ prompt = "menu"
    /\ action = <<"2">> =>
           /\ cmds = PackSteps
           /\ prompt = "menu" /\ source = <<>> /\ api_key = <<>>
    /\ Pushes # <<>> => action = <<"3">>

(* C8, as stated: the action is decided as above, and a line typed at the   *)
(* main menu other than 1, 2, 3 and q is fatal and runs no command.         *)
C8_AnyOtherInputFatal ==
    /\ ActionDecides
    /\ (prompt = "menu" /\ typed[1] \notin {<<"1">>, <<"2">>, <<"3">>, <<"q">>}) =>
           exit = <<1>> /\ cmds = <<>> /\ removed = {}

(* C8, amended: the line typed at the main menu is read with the blanks     *)
(* around it dropped and in lower case: it selects 1, 2, 3 or q when that   *)
(* is what is left (Q selecting q), the action is decided as above, and a   *)
(* line that selects none of them is fatal and runs no command.             *)
C8_MenuDecides ==
    /\ ActionDecides
    /\ prompt = "menu" =>
           /\ \A c \in {"1", "2", "3"} : action = <<c>> <=> Chose(typed[1], c)
           /\ action = <<"q">> <=> (Chose(typed[1], "q") \/ Chose(typed[1], "Q"))
           /\ (~\E c \in {"1", "2", "3", "q", "Q"} : Chose(typed[1], c)) =>
                  exit = <<1>> /\ cmds = <<>> /\ removed = {}

\* Pack-only, chosen with a blank before the 2, ran the pack-step commands.
C8_Witness ==
    /\ prompt = "menu"
    /\ typed = << <<" ", "2">> >>
    /\ Len(cmds) = 3
    /\ exit = <<0>>

(* C9: after set_source, choice 1 has set the source to the nuget.org URL;  *)
(* choice 2 with an owner that is not blank has set it to the GitHub prefix,*)
(* the owner without the blanks around it, and the suffix; choice 3 with a  *)
(* URL that is not blank has set it to that URL without the blanks around   *)
(* it; choice 2 or 3 with a blank answer has ended the run with status 1    *)
(* and no source set.                                                       *)
C9_SetSource ==
    prompt = "set_source" =>
        /\ Chose(typed[1], "1") => source = NugetOrg /\ ~Exited
        /\ Chose(typed[1], "2") =>
               /\ Len(typed) = 2
               /\ ~Blank(typed[2]) =>
                      /\ Len(source) >= 3
                      /\ source[1] = "https://nuget.pkg.github.com/"
                      /\ source[Len(source)] = "/index.json"
                      /\ IsTrimOf(SubSeq(source, 2, Len(source) - 1), typed[2])
                      /\ ~Exited
               /\ Blank(typed[2]) => exit = <<1>> /\ source = <<>>
        /\ Chose(typed[1], "3") =>
               /\ Len(typed) = 2
               /\ ~Blank(typed[2]) => IsTrimOf(source, typed[2]) /\ ~Exited
               /\ Blank(typed[2]) => exit = <<1>> /\ source = <<>>

\* The owner "a", typed with a blank after it, is in the GitHub URL.
C9_Witness ==
    /\ prompt = "set_source"
    /\ Chose(typed[1], "2")
    /\ typed[2] = <<"a", " ">>
    /\ source = <<"https://nuget.pkg.github.com/", "a", "/index.json">>

\* The run ended on an interactive input of set_source or set_api_key.
InputError ==
    /\ exit = <<1>>
    /\ prompt \in {"set_source", "set_api_key"}
    /\ ~Failed(cmds)

(* C10: under action 3 the commands run in the order list-sources, the      *)
(* three pack-step commands, the pushes; the source is set only after a     *)
(* successful list-sources, the credential only after the source, and the   *)
(* output directory is cleaned and the toolchain run only after both; a run *)
(* that ended on an interactive input has deleted nothing and run no        *)
(* build, pack or push; and any push follows three successful pack-step     *)
(* commands and carries a non-empty source and a non-empty credential.      *)
C10_PackAndPushOrder ==
    /\ action = <<"3">> =>
           \A i \in 1..Len(cmds) :
               /\ i = 1 => cmds[i].cmd.tool = "nuget list source"
               /\ i \in 2..4 => IsPackStep(cmds[i])
               /\ i >= 5 => IsPush(cmds[i])
    /\ (source # <<>> \/ prompt = "set_source") =>
           Len(cmds) >= 1 /\ cmds[1].cmd.tool = "nuget list source" /\ cmds[1].rc = 0
    /\ (api_key # <<>> \/ prompt = "set_api_key") => source # <<>>
    /\ (action = <<"3">> /\ (pc \in InPack \cup AfterPack \/ PackSteps # <<>> \/ removed # {})) =>
           source # <<>> /\ api_key # <<>>
    /\ InputError => removed = {} /\ PackSteps = <<>> /\ Pushes = <<>>
    /\ Pushes # <<>> =>
           /\ Len(PackSteps) = 3 /\ AllZero(PackSteps)
           /\ \A i \in 1..Len(Pushes) :
                  Pushes[i].cmd.source # <<>> /\ Pushes[i].cmd.key # <<>>

\* A push was made with a custom URL and a credential that is one blank.
C10_Witness ==
    /\ Pushes # <<>>
    /\ removed # {}
    /\ source = <<"a">>
    /\ api_key = <<" ">>

====
